---------------------------- MODULE Spec2Model ----------------------------
(***************************************************************************)
(* A model of src/src/main.rs (mssao): the text mesh parser                *)
(* parse_obj_file, the flattening turn_mesh_into_pure_vertex_list, the     *)
(* uploads of State::new, State::render and the event loop of main.        *)
(*                                                                         *)
(* Text is modelled character by character: a line is a sequence of        *)
(* one-character strings, and split_once / split / parse are operators on  *)
(* such sequences.  Coordinates are f32 values that are small integers     *)
(* (exactly representable); a normalised vector v / |v| is kept            *)
(* symbolically as the pair (num, den2) standing for num / sqrt(den2).     *)
(***************************************************************************)
EXTENDS Integers, Sequences, FiniteSets, TLC

VARIABLES
    \* ---- load_sponza: parse_obj_file, turn_mesh_into_pure_vertex_list
    pc,               \* position of the loading code
    overflow_checks,  \* build flavour: TRUE = debug (arithmetic overflow panics)
    text,             \* the lines read from the file so far (history)
    open_failed,      \* File::open returned Err (history)
    read_failed,      \* a read of a line returned Err (history)
    vertices,         \* parse_obj_file: vertices / CpuMesh.vertices
    normals,          \* parse_obj_file: normals
    indices,          \* parse_obj_file: indices / CpuMesh.indices
    last_appended,    \* the indices the last `f` line appended (history)
    out,              \* turn_mesh_into_pure_vertex_list: vertices (Vec<Vertex>)
    fault,            \* "none" or the panic that ended the thread
    \* ---- State::new, the event loop, State::render
    rpc,              \* position of main: State::new, the event loop, render
    ip,               \* index of the next device operation of the running routine
    buffers,          \* device buffers: size, elements written, synced
    meshes,           \* State.meshes
    held_keys,        \* State.retained_input.held_keys
    last_key_state,   \* per key, the ElementState of its last event (history)
    camera,           \* State.camera
    prev_sync_point,  \* State.prev_sync_point
    frame,            \* the frame of the render call in progress
    encoder,          \* commands recorded by command_encoder since start()
    submissions,      \* submitted command lists, by SyncPoint
    log               \* device operations in program order (history)

loadVars == <<pc, overflow_checks, text, open_failed, read_failed, vertices,
              normals, indices, last_appended, out, fault>>
renderVars == <<rpc, ip, buffers, meshes, held_keys, last_key_state, camera,
                prev_sync_point, frame, encoder, submissions, log>>
vars == <<pc, overflow_checks, text, open_failed, read_failed, vertices,
          normals, indices, last_appended, out, fault,
          rpc, ip, buffers, meshes, held_keys, last_key_state, camera,
          prev_sync_point, frame, encoder, submissions, log>>

(***************************************************************************)
(* Bounds of the model.                                                    *)
(***************************************************************************)
\* The longest text (number of lines read) the parser is run on.
MaxLines == 4
\* usize is modelled WordBits wide (64 on the target; TLC's integers are 32
\* bits wide, so the model keeps the wrap-around at a narrower width).
WordBits == 16
\* SpecFlatten: the most positions and the most indices of a drawn CpuMesh.
MaxPos == 3
MaxIdx == 6
\* Spec: the most render calls of a run.
MaxFrames == 2
\* SpecInput: the most redraws with KeyW held before the call of handle_input
\* that is examined, and the most keys held during that call.
MaxWalk == 24
MaxHeld == 3

UsizeMax == 2^WordBits - 1

(***************************************************************************)
(* Strings.                                                                *)
(***************************************************************************)
Digits == {"0", "1", "2", "3", "4", "5", "6", "7", "8", "9"}

DigitVal(c) ==
    CASE c = "0" -> 0 [] c = "1" -> 1 [] c = "2" -> 2 [] c = "3" -> 3
      [] c = "4" -> 4 [] c = "5" -> 5 [] c = "6" -> 6 [] c = "7" -> 7
      [] c = "8" -> 8 [] c = "9" -> 9

\* The characters operands are written in.  ".", "e", "E" and the letters
\* of "inf", "nan" are left out on purpose: over this alphabet a token parses
\* as f32 exactly when it is an optionally signed digit string.
TokenChars == Digits \cup {"/", "-", "+", "x"}
\* The characters lines are written in.
Chars == TokenChars \cup {" ", "v", "n", "f", "#"}

\* str::find of a one-character pattern: the first position, 0 when absent.
Find(s, c) ==
    IF \E i \in 1..Len(s) : s[i] = c
    THEN CHOOSE i \in 1..Len(s) : s[i] = c /\ \A j \in 1..(i - 1) : s[j] # c
    ELSE 0

\* str::split_once(c): None, or the text before and after the first c.
SplitOnce(s, c) ==
    LET i == Find(s, c) IN
    IF i = 0 THEN [some |-> FALSE]
    ELSE [some |-> TRUE, pre |-> SubSeq(s, 1, i - 1),
          rest |-> SubSeq(s, i + 1, Len(s))]

\* str::split(c): every maximal piece between separators, empty pieces kept
\* ("" splits into one empty piece).
RECURSIVE Split(_, _)
Split(s, c) ==
    LET i == Find(s, c) IN
    IF i = 0 THEN <<s>>
    ELSE <<SubSeq(s, 1, i - 1)>> \o Split(SubSeq(s, i + 1, Len(s)), c)

RECURSIVE DigitsValue(_)
DigitsValue(s) ==
    IF Len(s) = 0 THEN 0
    ELSE 10 * DigitsValue(SubSeq(s, 1, Len(s) - 1)) + DigitVal(s[Len(s)])

AllDigits(s) == Len(s) > 0 /\ \A i \in 1..Len(s) : s[i] \in Digits

\* str::parse::<usize>(): an optional "+", then at least one digit, and a
\* value that fits the word; everything else is Err.
ParseUsize(s) ==
    LET body == IF Len(s) > 0 /\ s[1] = "+" THEN Tail(s) ELSE s IN
    IF AllDigits(body) /\ DigitsValue(body) <= UsizeMax
    THEN [ok |-> TRUE, val |-> DigitsValue(body)]
    ELSE [ok |-> FALSE]

\* str::parse::<f32>() over Chars: an optional sign, then at least one digit
\* (the modelled tokens are short, so the value is an integer f32 holds
\* exactly).
ParseF32(s) ==
    LET signed == Len(s) > 0 /\ s[1] \in {"+", "-"}
        body == IF signed THEN Tail(s) ELSE s
    IN  IF AllDigits(body)
        THEN [ok |-> TRUE,
              val |-> IF signed /\ s[1] = "-" THEN 0 - DigitsValue(body)
                      ELSE DigitsValue(body)]
        ELSE [ok |-> FALSE]

(***************************************************************************)
(* parse_obj_file.                                                         *)
(***************************************************************************)
\* Vec3A::ZERO
Vec3Zero == <<0, 0, 0>>

\* The loop of the "v" and "vn" arms over rest.split(" ").enumerate():
\* v[i] = x for every piece that parses; Vec3A's index operator panics for
\* i >= 3.  i counts from 0 as in the code.
RECURSIVE SetCoords(_, _, _)
SetCoords(toks, i, v) ==
    IF toks = <<>> THEN [panic |-> FALSE, v |-> v]
    ELSE LET x == ParseF32(Head(toks)) IN
         IF x.ok
         THEN IF i >= 3 THEN [panic |-> TRUE]
              ELSE SetCoords(Tail(toks), i + 1, [v EXCEPT ![i + 1] = x.val])
         ELSE SetCoords(Tail(toks), i + 1, v)

\* v_idx - 1 on usize: the difference modulo the word, and whether it
\* overflowed (a panic with overflow checks, a wrap without).
SubOne(v_idx) ==
    [overflow |-> v_idx < 1, val |-> (v_idx - 1) % (2^WordBits)]

\* The loop of the "f" arm over rest.split(" "): only a piece that holds a
\* "/" and whose text before the first "/" parses as usize pushes an index.
RECURSIVE FaceIndices(_, _, _)
FaceIndices(toks, these_indices, checks) ==
    IF toks = <<>> THEN [panic |-> FALSE, idx |-> these_indices]
    ELSE LET so == SplitOnce(Head(toks), "/") IN
         IF so.some /\ ParseUsize(so.pre).ok
         THEN LET d == SubOne(ParseUsize(so.pre).val) IN
              IF d.overflow /\ checks THEN [panic |-> TRUE]
              ELSE FaceIndices(Tail(toks), Append(these_indices, d.val), checks)
         ELSE FaceIndices(Tail(toks), these_indices, checks)

\* match n { 3 => ..., 4 => ..., _ => dbg!("weird idx len") }
Triangulate(these_indices) ==
    CASE Len(these_indices) = 3 -> these_indices
      [] Len(these_indices) = 4 ->
            <<these_indices[1], these_indices[2], these_indices[3],
              these_indices[3], these_indices[4], these_indices[1]>>
      [] OTHER -> <<>>

\* The parser's locals as one value.
EmptyMesh ==
    [vertices |-> <<>>, normals |-> <<>>, indices |-> <<>>,
     appended |-> <<>>, fault |-> "none"]

PanicVec3Index == "Vec3A: index out of bounds"
PanicSubOverflow == "attempt to subtract with overflow"
PanicVecIndex == "Vec: index out of bounds"

ArmV(m, rest) ==
    LET r == SetCoords(Split(rest, " "), 0, Vec3Zero) IN
    IF r.panic THEN [m EXCEPT !.fault = PanicVec3Index, !.appended = <<>>]
    ELSE [m EXCEPT !.vertices = Append(@, r.v), !.appended = <<>>]

ArmVn(m, rest) ==
    LET r == SetCoords(Split(rest, " "), 0, Vec3Zero) IN
    IF r.panic THEN [m EXCEPT !.fault = PanicVec3Index, !.appended = <<>>]
    ELSE [m EXCEPT !.normals = Append(@, r.v), !.appended = <<>>]

ArmF(m, rest, checks) ==
    LET r == FaceIndices(Split(rest, " "), <<>>, checks) IN
    IF r.panic THEN [m EXCEPT !.fault = PanicSubOverflow, !.appended = <<>>]
    ELSE [m EXCEPT !.indices = @ \o Triangulate(r.idx),
                   !.appended = Triangulate(r.idx)]

\* line.split_once(" ") and match pre: which arm a line takes.
Arm(line) ==
    LET so == SplitOnce(line, " ") IN
    IF ~so.some THEN "none"
    ELSE CASE so.pre = <<"v">> -> "v"
           [] so.pre = <<"v", "n">> -> "vn"
           [] so.pre = <<"f">> -> "f"
           [] OTHER -> "_"

Rest(line) == SplitOnce(line, " ").rest

\* One iteration of the while-let loop on a line that was read.
LineStep(m, line, checks) ==
    CASE Arm(line) = "v" -> ArmV(m, Rest(line))
      [] Arm(line) = "vn" -> ArmVn(m, Rest(line))
      [] Arm(line) = "f" -> ArmF(m, Rest(line), checks)
      [] OTHER -> [m EXCEPT !.appended = <<>>]

\* The loop over a whole text; a panic ends it.
RECURSIVE ParseLines(_, _, _)
ParseLines(m, lines, checks) ==
    IF lines = <<>> \/ m.fault # "none" THEN m
    ELSE ParseLines(LineStep(m, Head(lines), checks), Tail(lines), checks)

(***************************************************************************)
(* The lines a read of the file may return.                                *)
(***************************************************************************)
LineV000 == <<"v", " ", "0", " ", "0", " ", "0">>
LineV100 == <<"v", " ", "1", " ", "0", " ", "0">>
LineV010 == <<"v", " ", "0", " ", "1", " ", "0">>
\* "v 1 2 3 4": a fourth numeric operand
LineV4 == <<"v", " ", "1", " ", "2", " ", "3", " ", "4">>
\* "v  1 x": a repeated space (an empty piece) and a non-numeric operand
LineVOdd == <<"v", " ", " ", "1", " ", "x">>
LineVn == <<"v", "n", " ", "0", " ", "0", " ", "1">>
\* "f 1 2 3" and "f 1 2 3 4": plain indices
LineFPlain3 == <<"f", " ", "1", " ", "2", " ", "3">>
LineFPlain4 == <<"f", " ", "1", " ", "2", " ", "3", " ", "4">>
\* "f 1/1 2/1 3/1" and "f 1/1 2/1 3/1 4/1": index/secondary pairs
LineFSlash3 ==
    <<"f", " ", "1", "/", "1", " ", "2", "/", "1", " ", "3", "/", "1">>
LineFSlash4 ==
    <<"f", " ", "1", "/", "1", " ", "2", "/", "1", " ", "3", "/", "1",
      " ", "4", "/", "1">>
\* "f 0/1 1/1 2/1": a primary index 0
LineFZero ==
    <<"f", " ", "0", "/", "1", " ", "1", "/", "1", " ", "2", "/", "1">>
\* "f 1/1 2/1 3/1 4 5": five operands
LineFFive ==
    <<"f", " ", "1", "/", "1", " ", "2", "/", "1", " ", "3", "/", "1",
      " ", "4", " ", "5">>
\* "f 1/1 2/1": two operands
LineFTwo == <<"f", " ", "1", "/", "1", " ", "2", "/", "1">>
\* "v 2": missing trailing components
LineVShort == <<"v", " ", "2">>
\* "#": no space separator
LineHash == <<"#">>
\* "o x": a prefix the match has no arm for
LineObject == <<"o", " ", "x">>
\* "vn 0 0 1 0": a fourth numeric operand
LineVn4 == <<"v", "n", " ", "0", " ", "0", " ", "1", " ", "0">>

LinePool ==
    {LineV000, LineV100, LineV010, LineV4, LineVOdd, LineVn, LineFPlain3,
     LineFPlain4, LineFSlash3, LineFSlash4, LineFZero, LineFFive, LineFTwo,
     LineVShort, LineHash, LineObject, LineVn4}

(***************************************************************************)
(* Vectors (glam::Vec3A) and turn_mesh_into_pure_vertex_list.              *)
(***************************************************************************)
VSub(a, b) == <<a[1] - b[1], a[2] - b[2], a[3] - b[3]>>
VDot(a, b) == a[1] * b[1] + a[2] * b[2] + a[3] * b[3]
VCross(a, b) ==
    <<a[2] * b[3] - b[2] * a[3],
      a[3] * b[1] - b[3] * a[1],
      a[1] * b[2] - b[1] * a[2]>>

Abs(x) == IF x < 0 THEN 0 - x ELSE x

RECURSIVE Gcd(_, _)
Gcd(a, b) == IF b = 0 THEN a ELSE Gcd(b, a % b)

\* A vector of f32 kept exactly: num / sqrt(den2).  den2 = 1 is the plain
\* vector num; den2 = 0 stands for the vector whose components are all NaN.
Plain(v) == [num |-> v, den2 |-> 1]
NaNVec == [num |-> Vec3Zero, den2 |-> 0]

\* Vec3A::normalize: self * (1 / self.length()).  For the zero vector the
\* reciprocal is infinite and 0 * inf is NaN in every component (glam's
\* assertion on the result is compiled out by default).  A non-zero vector
\* is kept in lowest terms so that equal directions are equal values.
VNormalize(v) ==
    IF v = Vec3Zero THEN NaNVec
    ELSE LET g == Gcd(Gcd(Abs(v[1]), Abs(v[2])), Abs(v[3]))
             n == <<v[1] \div g, v[2] \div g, v[3] \div g>>
         IN  [num |-> n, den2 |-> VDot(n, n)]

\* A slip in the operand order of the cross product: the opposite normal.
TriangleNormalSwapped(v0, v1, v2) ==
    VNormalize(VCross(VSub(v2, v0), VSub(v1, v0)))

\* let n = (v1 - v0).cross(v2 - v0).normalize();
TriangleNormal(v0, v1, v2) == VNormalize(VCross(VSub(v1, v0), VSub(v2, v0)))

\* The three Vertex values pushed for one chunk.
TriangleVertices(v0, v1, v2) ==
    LET n == TriangleNormal(v0, v1, v2) IN
    <<[pos |-> v0, normal |-> n], [pos |-> v1, normal |-> n],
      [pos |-> v2, normal |-> n]>>

\* mesh.indices.chunks_exact(3): the number of chunks.
NumChunks(idx) == Len(idx) \div 3

(***************************************************************************)
(* load_sponza as a state machine: parse_obj_file line by line, then       *)
(* turn_mesh_into_pure_vertex_list chunk by chunk.                         *)
(*   pc = "open"      before File::open                                    *)
(*   pc = "lines"     in the while-let loop over reader.lines()            *)
(*   pc = "flatten"   parse_obj_file has returned the CpuMesh; in the loop *)
(*                    over mesh.indices.chunks_exact(3)                    *)
(*   pc = "done"      turn_mesh_into_pure_vertex_list has returned         *)
(*   pc = "panicked"  the thread unwound with `fault`                      *)
(***************************************************************************)
CurMesh ==
    [vertices |-> vertices, normals |-> normals, indices |-> indices,
     appended |-> last_appended, fault |-> fault]

\* Store the parser's locals after one iteration on `line`.
Iterate(m, line) ==
    /\ text' = Append(text, line)
    /\ vertices' = m.vertices
    /\ normals' = m.normals
    /\ indices' = m.indices
    /\ last_appended' = m.appended
    /\ fault' = m.fault
    /\ pc' = IF m.fault = "none" THEN "lines" ELSE "panicked"
    /\ UNCHANGED <<overflow_checks, open_failed, read_failed, out>>
    /\ UNCHANGED renderVars

\* std::fs::File::open(path) is Err: the if-let body is skipped.
OpenErr ==
    /\ pc = "open"
    /\ pc' = "flatten"
    /\ open_failed' = TRUE
    /\ UNCHANGED <<overflow_checks, text, read_failed, vertices, normals,
                   indices, last_appended, out, fault>>
    /\ UNCHANGED renderVars

OpenOk ==
    /\ pc = "open"
    /\ pc' = "lines"
    /\ UNCHANGED <<overflow_checks, text, open_failed, read_failed, vertices,
                   normals, indices, last_appended, out, fault>>
    /\ UNCHANGED renderVars

\* lines.next() is Some(Ok(line)) and the line takes the "v" arm.
ReadV ==
    /\ pc = "lines"
    /\ Len(text) < MaxLines
    /\ \E line \in LinePool :
          /\ Arm(line) = "v"
          /\ Iterate(ArmV(CurMesh, Rest(line)), line)

ReadVn ==
    /\ pc = "lines"
    /\ Len(text) < MaxLines
    /\ \E line \in LinePool :
          /\ Arm(line) = "vn"
          /\ Iterate(ArmVn(CurMesh, Rest(line)), line)

ReadF ==
    /\ pc = "lines"
    /\ Len(text) < MaxLines
    /\ \E line \in LinePool :
          /\ Arm(line) = "f"
          /\ Iterate(ArmF(CurMesh, Rest(line), overflow_checks), line)

\* The `_ => {}` arm, or split_once(" ") is None.
ReadIgnored ==
    /\ pc = "lines"
    /\ Len(text) < MaxLines
    /\ \E line \in LinePool :
          /\ Arm(line) \in {"_", "none"}
          /\ Iterate([CurMesh EXCEPT !.appended = <<>>], line)

\* lines.next() is Some(Err(_)): `while let Some(Ok(line))` ends the loop,
\* and what was parsed so far is returned.
ReadErr ==
    /\ pc = "lines"
    /\ pc' = "flatten"
    /\ read_failed' = TRUE
    /\ UNCHANGED <<overflow_checks, text, open_failed, vertices, normals,
                   indices, last_appended, out, fault>>
    /\ UNCHANGED renderVars

\* lines.next() is None: end of file.
ReadEof ==
    /\ pc = "lines"
    /\ pc' = "flatten"
    /\ UNCHANGED <<overflow_checks, text, open_failed, read_failed, vertices,
                   normals, indices, last_appended, out, fault>>
    /\ UNCHANGED renderVars

\* One iteration of `for idxs in mesh.indices.chunks_exact(3)`; indexing
\* mesh.vertices out of range panics.
FlattenTriangle ==
    /\ pc = "flatten"
    /\ Len(out) \div 3 < NumChunks(indices)
    /\ LET t == Len(out) \div 3
           i0 == indices[3 * t + 1]
           i1 == indices[3 * t + 2]
           i2 == indices[3 * t + 3]
       IN  IF i0 >= Len(vertices) \/ i1 >= Len(vertices) \/ i2 >= Len(vertices)
           THEN /\ fault' = PanicVecIndex
                /\ pc' = "panicked"
                /\ out' = out
           ELSE /\ out' = out \o TriangleVertices(vertices[i0 + 1],
                                                  vertices[i1 + 1],
                                                  vertices[i2 + 1])
                /\ UNCHANGED <<pc, fault>>
    /\ UNCHANGED <<overflow_checks, text, open_failed, read_failed, vertices,
                   normals, indices, last_appended>>
    /\ UNCHANGED renderVars

\* The loop is over: `vertices` is returned.
FlattenReturn ==
    /\ pc = "flatten"
    /\ Len(out) \div 3 >= NumChunks(indices)
    /\ pc' = "done"
    /\ UNCHANGED <<overflow_checks, text, open_failed, read_failed, vertices,
                   normals, indices, last_appended, out, fault>>
    /\ UNCHANGED renderVars

\* The renderer's state while only the loader is looked at.
RenderOff ==
    /\ rpc = "off"
    /\ ip = 0
    /\ buffers = <<>>
    /\ meshes = <<>>
    /\ held_keys = {}
    /\ last_key_state = <<>>
    /\ camera = [pos |-> {}, yaw |-> 0, pitch |-> 0]
    /\ prev_sync_point = 0
    /\ frame = [state |-> "Idle", sp |-> 0]
    /\ encoder = <<>>
    /\ submissions = <<>>
    /\ log = <<>>

InitParse ==
    /\ pc = "open"
    /\ overflow_checks \in BOOLEAN
    /\ text = <<>>
    /\ open_failed = FALSE
    /\ read_failed = FALSE
    /\ vertices = <<>>
    /\ normals = <<>>
    /\ indices = <<>>
    /\ last_appended = <<>>
    /\ out = <<>>
    /\ fault = "none"
    /\ RenderOff

NextParse ==
    \/ OpenErr
    \/ OpenOk
    \/ ReadV
    \/ ReadVn
    \/ ReadF
    \/ ReadIgnored
    \/ ReadErr
    \/ ReadEof
    \/ FlattenTriangle
    \/ FlattenReturn

\* load_sponza on a nondeterministic file.
SpecParse == InitParse /\ [][NextParse]_vars

(***************************************************************************)
(* turn_mesh_into_pure_vertex_list on a drawn CpuMesh with indices in      *)
(* range.                                                                  *)
(***************************************************************************)
\* The positions drawn meshes are made of: three corners of a triangle and
\* a fourth point collinear with two of them.
PosPool == {<<0, 0, 0>>, <<1, 0, 0>>, <<0, 2, 0>>, <<2, 0, 0>>}

\* The sequences of n distinct elements of S.
DistinctSeqs(S, n) ==
    {q \in [1..n -> S] : \A i, j \in 1..n : i # j => q[i] # q[j]}

SeqsOfLen(S, n) == [1..n -> S]

InitFlatten ==
    /\ pc = "flatten"
    \* the loop does no arithmetic an overflow check could stop
    /\ overflow_checks = FALSE
    /\ text = <<>>
    /\ open_failed = FALSE
    /\ read_failed = FALSE
    /\ \E np \in 0..MaxPos : vertices \in DistinctSeqs(PosPool, np)
    /\ normals = <<>>
    /\ \E ni \in 0..MaxIdx : indices \in SeqsOfLen(0..(Len(vertices) - 1), ni)
    /\ last_appended = <<>>
    /\ out = <<>>
    /\ fault = "none"
    /\ RenderOff

NextFlatten ==
    \/ FlattenTriangle
    \/ FlattenReturn

SpecFlatten == InitFlatten /\ [][NextFlatten]_vars

(***************************************************************************)
(* Claims about parse_obj_file (SpecParse).                                *)
(***************************************************************************)
LastLine == text[Len(text)]

\* parse_obj_file has returned its CpuMesh.
Returned == pc \in {"flatten", "done"} \/ fault = PanicVecIndex

\* The operands of a line: its space-separated pieces after the directive.
Operands(line) == Split(Rest(line), " ")

\* The primary index an operand is written with: the text before its first
\* "/", or the whole operand when it has none.
Primary(tok) ==
    IF SplitOnce(tok, "/").some THEN SplitOnce(tok, "/").pre ELSE tok

\* Every operand of the line is written with a primary index >= 1.
IndexOperands(line) ==
    \A i \in 1..Len(Operands(line)) :
        /\ ParseUsize(Primary(Operands(line)[i])).ok
        /\ ParseUsize(Primary(Operands(line)[i])).val >= 1

OperandIndex(line, i) == ParseUsize(Primary(Operands(line)[i])).val - 1

C1Text == <<LineV000, LineV100, LineV010, LineFPlain3>>

\* C1: the text `v 0 0 0`, `v 1 0 0`, `v 0 1 0`, `f 1 2 3` parses to 3
\* positions and the one triangle (0,1,2), and flattens to exactly 3
\* vertices that all carry the normal (0,0,1).
C1_PlainFaceEndToEnd ==
    (text = C1Text /\ ~read_failed /\ pc \in {"flatten", "done"}) =>
        /\ Len(vertices) = 3
        /\ indices = <<0, 1, 2>>
        /\ pc = "done" =>
              /\ Len(out) = 3
              /\ \A i \in 1..Len(out) : out[i].normal = Plain(<<0, 0, 1>>)

\* C2: a face line with exactly 4 index operands (a b c d) appends exactly
\* the six indices of (a,b,c) then (c,d,a), one with exactly 3 operands
\* appends exactly (i1,i2,i3), and flattening emits one vertex per appended
\* index.
C2_FaceTriangulation ==
    /\ (text # <<>> /\ fault = "none" /\ Arm(LastLine) = "f"
            /\ IndexOperands(LastLine)) =>
          /\ Len(Operands(LastLine)) = 4 =>
                last_appended =
                    <<OperandIndex(LastLine, 1), OperandIndex(LastLine, 2),
                      OperandIndex(LastLine, 3), OperandIndex(LastLine, 3),
                      OperandIndex(LastLine, 4), OperandIndex(LastLine, 1)>>
          /\ Len(Operands(LastLine)) = 3 =>
                last_appended =
                    <<OperandIndex(LastLine, 1), OperandIndex(LastLine, 2),
                      OperandIndex(LastLine, 3)>>
    /\ pc = "done" => Len(out) = Len(indices)

\* The text without its i-th line.
RemoveAt(lines, i) == SubSeq(lines, 1, i - 1) \o SubSeq(lines, i + 1, Len(lines))

\* A face line whose operand list has a length other than 3 or 4.
BadFaceLine(line) == Arm(line) = "f" /\ Len(Operands(line)) \notin {3, 4}

\* C3: a face line whose operand count is neither 3 nor 4 appends no index,
\* and the rest of the text is parsed as it would be without that line.
C3_BadFaceSkipped ==
    /\ (text # <<>> /\ BadFaceLine(LastLine)) =>
          (last_appended = <<>> /\ fault # PanicSubOverflow)
    /\ pc \in {"lines", "flatten", "done"} =>
          \A i \in 1..Len(text) :
              BadFaceLine(text[i]) =>
                LET m == ParseLines(EmptyMesh, RemoveAt(text, i), overflow_checks)
                IN  m.vertices = vertices /\ m.indices = indices

\* C4: every index of the returned CpuMesh lies in [0, positions.len()), and
\* flattening never reads a position out of the sequence.
C4_IndicesInRange ==
    /\ Returned => \A i \in 1..Len(indices) :
                      0 <= indices[i] /\ indices[i] < Len(vertices)
    /\ fault # PanicVecIndex

\* C6: when the file cannot be opened, or a read of a line fails (also after
\* earlier lines were parsed), the returned CpuMesh is empty and no error is
\* raised.
C6_UnreadableGivesEmpty ==
    ((open_failed \/ read_failed) /\ Returned) =>
        (vertices = <<>> /\ indices = <<>> /\ fault = "none")

\* Component k (0..2) of a `v` line: its k-th operand when that operand is
\* numeric, 0 when it is missing or not numeric.
Component(line, k) ==
    IF k + 1 <= Len(Operands(line)) /\ ParseF32(Operands(line)[k + 1]).ok
    THEN ParseF32(Operands(line)[k + 1]).val
    ELSE 0

IsVLine(line) == Arm(line) = "v"

\* C7: every `v` line, whatever its operands, appends exactly one position
\* (its first three operands, 0 where missing or not numeric) and raises
\* no error.
C7_VertexLineTotal ==
    LET vl == SelectSeq(text, IsVLine) IN
    /\ fault # PanicVec3Index
    /\ Len(vertices) = Len(vl)
    /\ \A i \in 1..Len(vertices) :
          vertices[i] = <<Component(vl[i], 0), Component(vl[i], 1),
                          Component(vl[i], 2)>>

\* C8: a face operand with primary index k >= 0 never aborts the parse, an
\* index stored for it is k - 1 with k >= 1, and no stored index is the
\* wrap-around of 0 - 1.
C8_OneBasedConversion ==
    /\ fault # PanicSubOverflow
    /\ \A i \in 1..Len(indices) : indices[i] # UsizeMax
    /\ (text # <<>> /\ Arm(LastLine) = "f") =>
          \A j \in 1..Len(last_appended) :
              \E i \in 1..Len(Operands(LastLine)) :
                  /\ ParseUsize(Primary(Operands(LastLine)[i])).ok
                  /\ ParseUsize(Primary(Operands(LastLine)[i])).val >= 1
                  /\ last_appended[j] = OperandIndex(LastLine, i)

(***************************************************************************)
(* Claims about turn_mesh_into_pure_vertex_list (SpecFlatten).             *)
(***************************************************************************)
\* The position the k-th index of the mesh names.
PositionAt(k) == vertices[indices[k] + 1]

\* C9: on a CpuMesh with indices in range the result has exactly
\* 3 * floor(indices.len() / 3) vertices; the vertices 3t, 3t+1, 3t+2 carry
\* the positions of the t-th index triple in order and all three carry
\* normalize(cross(p1 - p0, p2 - p0)) of that triple alone, so the result is
\* a function of the mesh and shared positions are not smoothed.
C9_FlattenPerTriangle ==
    /\ fault = "none"
    /\ pc = "done" => Len(out) = 3 * (Len(indices) \div 3)
    /\ Len(out) % 3 = 0
    /\ Len(out) <= Len(indices)
    /\ \A t \in 0..((Len(out) \div 3) - 1) :
          LET p0 == PositionAt(3 * t + 1)
              p1 == PositionAt(3 * t + 2)
              p2 == PositionAt(3 * t + 3)
              n == VNormalize(VCross(VSub(p1, p0), VSub(p2, p0)))
          IN  /\ out[3 * t + 1] = [pos |-> p0, normal |-> n]
              /\ out[3 * t + 2] = [pos |-> p1, normal |-> n]
              /\ out[3 * t + 3] = [pos |-> p2, normal |-> n]

\* Two triangles over the same three positions, wound the opposite way,
\* were flattened: the shared positions carry two different normals.
C9_Witness ==
    /\ pc = "done"
    /\ Len(out) = 6
    /\ out[1].pos = out[4].pos
    /\ out[1].normal = Plain(<<0, 0, 1>>)
    /\ out[4].normal = Plain(<<0, 0, -1>>)

(***************************************************************************)
(* The device, State::new, the event loop of main and State::render.       *)
(*   rpc = "new"           in State::new, at its ip-th device operation    *)
(*   rpc = "loop"          the event loop waits for an event               *)
(*   rpc = "handle_input"  RedrawRequested: before state.handle_input()    *)
(*   rpc = "render"        in State::render, at its ip-th operation        *)
(*   rpc = "exited"        after target.exit()                             *)
(*   rpc = "upload_mesh"   in upload_mesh (SpecUpload), at its ip-th       *)
(*                         operation; "returned" after it, "panicked" when *)
(*                         it unwound                                      *)
(***************************************************************************)
\* std::mem::size_of::<Vertex>(): two [f32; 3]
VertexSize == 24

\* std::mem::size_of::<u32>()
U32Size == 4

\* The buffers the code creates: upload_vertices's "vertex buffer", the
\* "screen quad buf" of State::new, and the "vertex buffer" and "index
\* buffer" of upload_mesh.
VertexBuf == "vertex buffer"
ScreenQuadBuf == "screen quad buf"
MeshVertexBuf == "vertex buffer (upload_mesh)"
IndexBuf == "index buffer"
BufNames == {VertexBuf, ScreenQuadBuf, MeshVertexBuf, IndexBuf}

\* screen_quad_vertices: six positions, each with normal Default::default().
ScreenQuadVertices ==
    LET quad == <<(<<-1, -1, 0>>), (<<1, -1, 0>>), (<<-1, 1, 0>>),
                  (<<1, -1, 0>>), (<<1, 1, 0>>), (<<-1, 1, 0>>)>>
    IN  [i \in 1..6 |-> [pos |-> quad[i], normal |-> Plain(Vec3Zero)]]

\* The list a buffer is filled from.  upload_mesh fills its vertex buffer
\* from gpu_vertices, which has one Vertex per position of the CpuMesh, and
\* its index buffer from the indices converted to u32.
SourceOf(buf) ==
    CASE buf = VertexBuf -> out
      [] buf = ScreenQuadBuf -> ScreenQuadVertices
      [] buf = MeshVertexBuf -> vertices
      [] buf = IndexBuf -> indices

\* The size of one element of a buffer.
Stride(buf) == IF buf = IndexBuf THEN U32Size ELSE VertexSize

\* BufferDesc.size sized for positions only, 12 bytes an element.
DescSizeOfPositions(buf) == Len(SourceOf(buf)) * 12

\* BufferDesc { size: (len * std::mem::size_of::<T>()) as u64, .. }
DescSize(buf) == Len(SourceOf(buf)) * Stride(buf)

\* The element count handed to std::ptr::copy_nonoverlapping.
CopyLen(buf) == Len(SourceOf(buf))

\* The device operations of State::new from load_sponza() on, in program
\* order: upload_vertices(sponza_vertices), meshes.push, the screen quad.
StateNewOps ==
    <<[op |-> "create_buffer", buf |-> VertexBuf],
      [op |-> "write", buf |-> VertexBuf],
      [op |-> "sync_buffer", buf |-> VertexBuf],
      [op |-> "push_mesh", buf |-> VertexBuf],
      [op |-> "create_buffer", buf |-> ScreenQuadBuf],
      [op |-> "write", buf |-> ScreenQuadBuf],
      [op |-> "sync_buffer", buf |-> ScreenQuadBuf]>>

\* State::render with the quad uploaded again after the submission, before
\* the wait: a per-frame re-upload put one statement too early.
RenderOpsRewrite ==
    <<[op |-> "acquire_frame"],
      [op |-> "start"],
      [op |-> "init_texture", target |-> "frame"],
      [op |-> "render", name |-> "light", colors |-> <<"frame">>,
       depth_stencil |-> "None"],
      [op |-> "with", pipeline |-> "light_pipeline"],
      [op |-> "bind_vertex", buf |-> ScreenQuadBuf],
      [op |-> "draw", first |-> 0, count |-> 6, instances |-> 1],
      [op |-> "end_pass"],
      [op |-> "present"],
      [op |-> "submit"],
      [op |-> "write", buf |-> ScreenQuadBuf],
      [op |-> "wait_for", timeout |-> "!0"]>>

\* State::render returning right after the submission, its wait left to a
\* later call.
RenderOpsNoWait ==
    <<[op |-> "acquire_frame"],
      [op |-> "start"],
      [op |-> "init_texture", target |-> "frame"],
      [op |-> "render", name |-> "light", colors |-> <<"frame">>,
       depth_stencil |-> "None"],
      [op |-> "with", pipeline |-> "light_pipeline"],
      [op |-> "bind_vertex", buf |-> ScreenQuadBuf],
      [op |-> "draw", first |-> 0, count |-> 6, instances |-> 1],
      [op |-> "end_pass"],
      [op |-> "present"],
      [op |-> "submit"]>>

\* State::render with present(frame) moved after the submission.
RenderOpsPresentLate ==
    <<[op |-> "acquire_frame"],
      [op |-> "start"],
      [op |-> "init_texture", target |-> "frame"],
      [op |-> "render", name |-> "light", colors |-> <<"frame">>,
       depth_stencil |-> "None"],
      [op |-> "with", pipeline |-> "light_pipeline"],
      [op |-> "bind_vertex", buf |-> ScreenQuadBuf],
      [op |-> "draw", first |-> 0, count |-> 6, instances |-> 1],
      [op |-> "end_pass"],
      [op |-> "submit"],
      [op |-> "present"],
      [op |-> "wait_for", timeout |-> "!0"]>>

\* The device operations of State::render, in program order.
RenderOps ==
    <<[op |-> "acquire_frame"],
      [op |-> "start"],
      [op |-> "init_texture", target |-> "frame"],
      [op |-> "render", name |-> "light", colors |-> <<"frame">>,
       depth_stencil |-> "None"],
      [op |-> "with", pipeline |-> "light_pipeline"],
      [op |-> "bind_vertex", buf |-> ScreenQuadBuf],
      [op |-> "draw", first |-> 0, count |-> 6, instances |-> 1],
      [op |-> "end_pass"],
      [op |-> "present"],
      [op |-> "submit"],
      [op |-> "wait_for", timeout |-> "!0"]>>

\* The operations of upload_mesh, in program order.
UploadMeshOps ==
    <<[op |-> "normals"],
      [op |-> "create_buffer", buf |-> MeshVertexBuf],
      [op |-> "write", buf |-> MeshVertexBuf],
      [op |-> "create_buffer", buf |-> IndexBuf],
      [op |-> "write", buf |-> IndexBuf],
      [op |-> "sync_buffer", buf |-> MeshVertexBuf],
      [op |-> "sync_buffer", buf |-> IndexBuf]>>

CurOps ==
    CASE rpc = "new" -> StateNewOps
      [] rpc = "render" -> RenderOps
      [] rpc = "upload_mesh" -> UploadMeshOps
      [] OTHER -> <<>>

AtOp(kinds) == ip \in 1..Len(CurOps) /\ CurOps[ip].op \in kinds
CurOp == CurOps[ip]

\* The buffers the commands of a list read.
BuffersOf(cmds) ==
    {cmds[i].buf : i \in {j \in 1..Len(cmds) : cmds[j].op = "bind_vertex"}}

NoBuffer == [created |-> FALSE, size |-> 0, written |-> 0, synced |-> FALSE]

\* ctx.create_buffer(BufferDesc { size: len * size_of::<Vertex>(), .. })
CreateBuffer ==
    /\ AtOp({"create_buffer"})
    /\ buffers' = [buffers EXCEPT ![CurOp.buf] =
                       [created |-> TRUE, size |-> DescSize(CurOp.buf),
                        written |-> 0, synced |-> FALSE]]
    /\ log' = Append(log, CurOp)
    /\ ip' = ip + 1
    /\ UNCHANGED <<rpc, meshes, held_keys, last_key_state, camera,
                   prev_sync_point, frame, encoder, submissions>>
    /\ UNCHANGED loadVars

\* std::ptr::copy_nonoverlapping(src, buf.data() as *mut T, len): len
\* elements of T; written is the number of bytes the copy wrote.
WriteBuffer ==
    /\ AtOp({"write"})
    /\ buffers' = [buffers EXCEPT ![CurOp.buf].written =
                       CopyLen(CurOp.buf) * Stride(CurOp.buf),
                                  ![CurOp.buf].synced = FALSE]
    /\ log' = Append(log, CurOp)
    /\ ip' = ip + 1
    /\ UNCHANGED <<rpc, meshes, held_keys, last_key_state, camera,
                   prev_sync_point, frame, encoder, submissions>>
    /\ UNCHANGED loadVars

\* ctx.sync_buffer(buf)
SyncBuffer ==
    /\ AtOp({"sync_buffer"})
    /\ buffers' = [buffers EXCEPT ![CurOp.buf].synced = TRUE]
    /\ log' = Append(log, CurOp)
    /\ ip' = ip + 1
    /\ UNCHANGED <<rpc, meshes, held_keys, last_key_state, camera,
                   prev_sync_point, frame, encoder, submissions>>
    /\ UNCHANGED loadVars

\* meshes.clear(); meshes.push(gpu_sponza) with the Mesh of upload_vertices.
PushMesh ==
    /\ AtOp({"push_mesh"})
    /\ meshes' = <<[vertex_buf |-> CurOp.buf, index_buf |-> "None",
                    num_vertices |-> Len(out), num_indices |-> 0]>>
    /\ ip' = ip + 1
    /\ UNCHANGED <<rpc, buffers, held_keys, last_key_state, camera,
                   prev_sync_point, frame, encoder, submissions, log>>
    /\ UNCHANGED loadVars

\* upload_mesh: the normals and gpu_vertices are computed before any buffer
\* is created.  indices.chunks(3) yields a last chunk of 1 or 2 indices when
\* the count is no multiple of 3, and idxs[1], idxs[2], vertices[i] and
\* normals[i / 3] are checked accesses.
UploadMeshPanics ==
    \/ Len(indices) % 3 # 0
    \/ \E i \in 1..Len(indices) : indices[i] >= Len(vertices)
    \/ \E i \in 0..(Len(vertices) - 1) : i \div 3 >= Len(indices) \div 3

UploadMeshNormals ==
    /\ AtOp({"normals"})
    /\ IF UploadMeshPanics
       THEN /\ rpc' = "panicked"
            /\ fault' = PanicVecIndex
            /\ ip' = 0
       ELSE /\ ip' = ip + 1
            /\ UNCHANGED <<rpc, fault>>
    /\ UNCHANGED <<buffers, meshes, held_keys, last_key_state, camera,
                   prev_sync_point, frame, encoder, submissions, log>>
    /\ UNCHANGED <<pc, overflow_checks, text, open_failed, read_failed,
                   vertices, normals, indices, last_appended, out>>

\* upload_mesh returns its Mesh; it is kept in meshes, where the caller
\* State::new would push it.
UploadMeshReturn ==
    /\ rpc = "upload_mesh"
    /\ ip > Len(UploadMeshOps)
    /\ meshes' = <<[vertex_buf |-> MeshVertexBuf, index_buf |-> IndexBuf,
                    num_vertices |-> Len(vertices),
                    num_indices |-> Len(indices)]>>
    /\ rpc' = "returned"
    /\ ip' = 0
    /\ UNCHANGED <<buffers, held_keys, last_key_state, camera,
                   prev_sync_point, frame, encoder, submissions, log>>
    /\ UNCHANGED loadVars

\* Self { prev_sync_point: None, camera: default_from_aspect(..),
\*        retained_input: Default::default(), .. }; main enters the loop.
StateNewReturn ==
    /\ rpc = "new"
    /\ ip > Len(StateNewOps)
    /\ rpc' = "loop"
    /\ ip' = 0
    /\ prev_sync_point' = 0
    /\ camera' = [pos |-> {}, yaw |-> 0, pitch |-> 0]
    /\ held_keys' = {}
    /\ UNCHANGED <<buffers, meshes, last_key_state, frame, encoder,
                   submissions, log>>
    /\ UNCHANGED loadVars

(***************************************************************************)
(* f32 arithmetic.  A value is kept as an integer number of units, the     *)
(* unit a power of two small enough that every value met is a whole number *)
(* of units; an f32 holds F32Mantissa significant bits, and an addition    *)
(* rounds its exact result to the nearest such value, ties to even.        *)
(***************************************************************************)
\* The significand of an f32 (Camera.pos: Vec3A, Camera.yaw, Camera.pitch).
F32Mantissa == 24

\* The spacing of the f32 values around a >= 0, in units.
RECURSIVE Ulp(_, _)
Ulp(a, q) == IF a \div q < 2 ^ F32Mantissa THEN q ELSE Ulp(a, 2 * q)

RoundF32(n) ==
    LET a == Abs(n)
        q == Ulp(a, 1)
        lo == a \div q
        rem == a % q
        up == IF 2 * rem > q \/ (2 * rem = q /\ lo % 2 = 1) THEN 1 ELSE 0
        r == (lo + up) * q
    IN  IF n < 0 THEN -r ELSE r

\* a + b in f32
FAdd(a, b) == RoundF32(a + b)

(***************************************************************************)
(* Camera and State::handle_input.  yaw and pitch are f32 values in units  *)
(* of 2^-32.  pos is kept by its coordinates along the basis vectors the   *)
(* steps were taken along, the basis named by the (yaw, pitch) it was      *)
(* computed from: a set of [yaw, pitch, axis, n] with n # 0 the f32        *)
(* coordinate in units of 2^-30, one per basis vector.  For yaw = pitch = 0*)
(* right_forward_up() is (1,0,0), (0,0,-1), (0,1,0), and the coordinates   *)
(* along r, f, u are pos.x, -pos.z, pos.y.                                 *)
(***************************************************************************)
\* The keys whose events the model draws; "Escape" stands for every key
\* handle_input has no arm for.
KeyPool == {"KeyW", "KeyS", "KeyI", "Escape"}

\* Every key handle_input has an arm for, and one it has none for.
InputKeys == {"KeyW", "KeyA", "KeyS", "KeyD", "KeyQ", "KeyE",
              "KeyI", "KeyJ", "KeyK", "KeyL", "Escape"}

\* let speed = 0.01;  as f32, in units of 2^-30
speed == 10737418
\* let angle_speed = 0.003;  as f32, in units of 2^-32
angle_speed == 12884902

\* Camera::default_from_aspect
DefaultCamera == [pos |-> {}, yaw |-> 0, pitch |-> 0]

\* The coordinate of pos along a basis vector.
Steps(pos, yaw, pitch, axis) ==
    IF \E m \in pos : m.yaw = yaw /\ m.pitch = pitch /\ m.axis = axis
    THEN (CHOOSE m \in pos :
              m.yaw = yaw /\ m.pitch = pitch /\ m.axis = axis).n
    ELSE 0

\* pos += axis * (d * speed), axis one of r, f, u of the basis (yaw, pitch).
PosAdd(pos, yaw, pitch, axis, d) ==
    LET n == FAdd(Steps(pos, yaw, pitch, axis), d * speed)
        others == {m \in pos :
                      ~(m.yaw = yaw /\ m.pitch = pitch /\ m.axis = axis)}
    IN  IF n = 0 THEN others
        ELSE others \cup {[yaw |-> yaw, pitch |-> pitch, axis |-> axis, n |-> n]}

\* One arm of the match in handle_input; b is the camera at the start of
\* the call, whose right_forward_up() gave r, f, u.
ApplyKey(cam, key, b) ==
    CASE key = "KeyW" -> [cam EXCEPT !.pos = PosAdd(@, b.yaw, b.pitch, "f", 1)]
      [] key = "KeyA" -> [cam EXCEPT !.pos = PosAdd(@, b.yaw, b.pitch, "r", -1)]
      [] key = "KeyS" -> [cam EXCEPT !.pos = PosAdd(@, b.yaw, b.pitch, "f", -1)]
      [] key = "KeyD" -> [cam EXCEPT !.pos = PosAdd(@, b.yaw, b.pitch, "r", 1)]
      [] key = "KeyQ" -> [cam EXCEPT !.pos = PosAdd(@, b.yaw, b.pitch, "u", -1)]
      [] key = "KeyE" -> [cam EXCEPT !.pos = PosAdd(@, b.yaw, b.pitch, "u", 1)]
      [] key = "KeyI" -> [cam EXCEPT !.pitch = FAdd(@, angle_speed)]
      [] key = "KeyJ" -> [cam EXCEPT !.yaw = FAdd(@, angle_speed)]
      [] key = "KeyK" -> [cam EXCEPT !.pitch = FAdd(@, -angle_speed)]
      [] key = "KeyL" -> [cam EXCEPT !.yaw = FAdd(@, -angle_speed)]
      [] OTHER -> cam

\* for key in held_keys.iter() { match key { .. } } in the order `order`.
RECURSIVE ApplyKeys(_, _, _)
ApplyKeys(cam, order, b) ==
    IF order = <<>> THEN cam
    ELSE ApplyKeys(ApplyKey(cam, Head(order), b), Tail(order), b)

\* The orders a HashSet may be iterated in.
Orders(S) ==
    {o \in [1..Cardinality(S) -> S] :
        \A i, j \in 1..Cardinality(S) : i # j => o[i] # o[j]}

(***************************************************************************)
(* The event loop of main.                                                 *)
(***************************************************************************)
\* KeyboardInput, ElementState::Pressed: held_keys.insert(key_code)
KeyPressed ==
    /\ rpc = "loop"
    /\ \E k \in KeyPool :
          /\ held_keys' = held_keys \cup {k}
          /\ last_key_state' = [last_key_state EXCEPT ![k] = "Pressed"]
    /\ UNCHANGED <<rpc, ip, buffers, meshes, camera, prev_sync_point, frame,
                   encoder, submissions, log>>
    /\ UNCHANGED loadVars

\* KeyboardInput, Released written as a reset of the whole set.
KeyReleasedClears ==
    /\ rpc = "loop"
    /\ \E k \in KeyPool :
          /\ held_keys' = {}
          /\ last_key_state' = [last_key_state EXCEPT ![k] = "Released"]
    /\ UNCHANGED <<rpc, ip, buffers, meshes, camera, prev_sync_point, frame,
                   encoder, submissions, log>>
    /\ UNCHANGED loadVars

\* KeyboardInput, ElementState::Released: held_keys.remove(&key_code)
KeyReleased ==
    /\ rpc = "loop"
    /\ \E k \in KeyPool :
          /\ held_keys' = held_keys \ {k}
          /\ last_key_state' = [last_key_state EXCEPT ![k] = "Released"]
    /\ UNCHANGED <<rpc, ip, buffers, meshes, camera, prev_sync_point, frame,
                   encoder, submissions, log>>
    /\ UNCHANGED loadVars

\* WindowEvent::CloseRequested: target.exit()
CloseRequested ==
    /\ rpc = "loop"
    /\ rpc' = "exited"
    /\ UNCHANGED <<ip, buffers, meshes, held_keys, last_key_state, camera,
                   prev_sync_point, frame, encoder, submissions, log>>
    /\ UNCHANGED loadVars

\* WindowEvent::RedrawRequested arrives: the handler is entered.  The log
\* keeps the calls the handler makes along with the device operations.
RedrawRequested ==
    /\ rpc = "loop"
    /\ Len(submissions) < MaxFrames
    /\ rpc' = "handle_input"
    /\ log' = Append(log, [op |-> "RedrawRequested"])
    /\ UNCHANGED <<ip, buffers, meshes, held_keys, last_key_state, camera,
                   prev_sync_point, frame, encoder, submissions>>
    /\ UNCHANGED loadVars

\* state.handle_input(); state.render() is entered next.
HandleInput ==
    /\ rpc = "handle_input"
    /\ \E order \in Orders(held_keys) :
          camera' = ApplyKeys(camera, order, camera)
    /\ log' = Append(log, [op |-> "handle_input"])
    /\ rpc' = "render"
    /\ ip' = 1
    /\ UNCHANGED <<buffers, meshes, held_keys, last_key_state,
                   prev_sync_point, frame, encoder, submissions>>
    /\ UNCHANGED loadVars

(***************************************************************************)
(* State::render.                                                          *)
(***************************************************************************)
\* let frame = self.surface.acquire_frame();
AcquireFrame ==
    /\ AtOp({"acquire_frame"})
    /\ frame' = [state |-> "Acquired", sp |-> 0]
    /\ log' = Append(log, CurOp)
    /\ ip' = ip + 1
    /\ UNCHANGED <<rpc, buffers, meshes, held_keys, last_key_state, camera,
                   prev_sync_point, encoder, submissions>>
    /\ UNCHANGED loadVars

\* self.command_encoder.start();
EncoderStart ==
    /\ AtOp({"start"})
    /\ encoder' = <<>>
    /\ frame' = [frame EXCEPT !.state = "Encoding"]
    /\ log' = Append(log, CurOp)
    /\ ip' = ip + 1
    /\ UNCHANGED <<rpc, buffers, meshes, held_keys, last_key_state, camera,
                   prev_sync_point, submissions>>
    /\ UNCHANGED loadVars

\* A command recorded into the encoder: init_texture, the pass and what is
\* bound and drawn in it, present.
Encode ==
    /\ AtOp({"init_texture", "render", "with", "bind_vertex", "draw",
             "end_pass", "present"})
    /\ encoder' = Append(encoder, CurOp)
    /\ log' = Append(log, CurOp)
    /\ ip' = ip + 1
    /\ UNCHANGED <<rpc, buffers, meshes, held_keys, last_key_state, camera,
                   prev_sync_point, frame, submissions>>
    /\ UNCHANGED loadVars

\* let sp = self.ctx.submit(&mut self.command_encoder); cam is the camera
\* the call was made with (history).
Submit ==
    /\ AtOp({"submit"})
    /\ submissions' = Append(submissions,
                             [cmds |-> encoder, refs |-> BuffersOf(encoder),
                              cam |-> camera,
                              done |-> FALSE, waited |-> FALSE])
    /\ frame' = [state |-> "Submitted", sp |-> Len(submissions) + 1]
    /\ log' = Append(log, [op |-> "submit", sp |-> Len(submissions) + 1,
                           refs |-> BuffersOf(encoder)])
    /\ ip' = ip + 1
    /\ UNCHANGED <<rpc, buffers, meshes, held_keys, last_key_state, camera,
                   prev_sync_point, encoder>>
    /\ UNCHANGED loadVars

\* The device, on its own timeline, finishes the oldest unfinished
\* submission.
GpuComplete ==
    /\ \E i \in 1..Len(submissions) :
          /\ ~submissions[i].done
          /\ \A j \in 1..(i - 1) : submissions[j].done
          /\ submissions' = [submissions EXCEPT ![i].done = TRUE]
    /\ UNCHANGED <<rpc, ip, buffers, meshes, held_keys, last_key_state,
                   camera, prev_sync_point, frame, encoder, log>>
    /\ UNCHANGED loadVars

\* self.ctx.wait_for(&sp, !0): blocks until the device has signalled sp.
WaitFor ==
    /\ AtOp({"wait_for"})
    /\ frame.sp \in 1..Len(submissions)
    /\ submissions[frame.sp].done
    /\ submissions' = [submissions EXCEPT ![frame.sp].waited = TRUE]
    /\ frame' = [frame EXCEPT !.state = "Waited"]
    /\ log' = Append(log, [op |-> "wait_for", sp |-> frame.sp,
                           timeout |-> CurOp.timeout])
    /\ ip' = ip + 1
    /\ UNCHANGED <<rpc, buffers, meshes, held_keys, last_key_state, camera,
                   prev_sync_point, encoder>>
    /\ UNCHANGED loadVars

\* render returns to the event loop.
RenderReturn ==
    /\ rpc = "render"
    /\ ip > Len(RenderOps)
    /\ rpc' = "loop"
    /\ ip' = 0
    /\ frame' = [state |-> "Idle", sp |-> 0]
    /\ log' = Append(log, [op |-> "render returns"])
    /\ UNCHANGED <<buffers, meshes, held_keys, last_key_state, camera,
                   prev_sync_point, encoder, submissions>>
    /\ UNCHANGED loadVars

\* The vertex lists load_sponza hands to State::new in the runs of Spec:
\* none, one triangle, two triangles.
SponzaPool ==
    {<<>>,
     TriangleVertices(<<0, 0, 0>>, <<1, 0, 0>>, <<0, 2, 0>>),
     TriangleVertices(<<0, 0, 0>>, <<1, 0, 0>>, <<0, 2, 0>>)
        \o TriangleVertices(<<0, 0, 0>>, <<0, 2, 0>>, <<1, 0, 0>>)}

Init ==
    /\ pc = "done"
    /\ overflow_checks \in BOOLEAN
    /\ text = <<>>
    /\ open_failed = FALSE
    /\ read_failed = FALSE
    /\ vertices = <<>>
    /\ normals = <<>>
    /\ indices = <<>>
    /\ last_appended = <<>>
    /\ out \in SponzaPool
    /\ fault = "none"
    /\ rpc = "new"
    /\ ip = 1
    /\ buffers = [b \in BufNames |-> NoBuffer]
    /\ meshes = <<>>
    /\ held_keys = {}
    /\ last_key_state = [k \in InputKeys |-> "none"]
    /\ camera = DefaultCamera
    /\ prev_sync_point = 0
    /\ frame = [state |-> "Idle", sp |-> 0]
    /\ encoder = <<>>
    /\ submissions = <<>>
    /\ log = <<>>

Next ==
    \/ CreateBuffer
    \/ WriteBuffer
    \/ SyncBuffer
    \/ PushMesh
    \/ StateNewReturn
    \/ KeyPressed
    \/ KeyReleased
    \/ CloseRequested
    \/ RedrawRequested
    \/ HandleInput
    \/ AcquireFrame
    \/ EncoderStart
    \/ Encode
    \/ Submit
    \/ GpuComplete
    \/ WaitFor
    \/ RenderReturn

\* main: State::new after load_sponza, then the event loop.
Spec == Init /\ [][Next]_vars

(***************************************************************************)
(* Claims about the renderer (Spec).                                       *)
(***************************************************************************)
\* C5: no CPU write into a mesh buffer or the screen-quad buffer happens
\* between a submission whose commands reference the buffer and the
\* completion of the wait on that submission's SyncPoint: every write that
\* follows such a submission in program order has that wait in between.
C5_NoWriteWhileInFlight ==
    \A i \in 1..Len(log) : \A j \in (i + 1)..Len(log) :
        (log[i].op = "submit" /\ log[j].op = "write"
            /\ log[j].buf \in log[i].refs) =>
        \E k \in (i + 1)..(j - 1) :
            log[k].op = "wait_for" /\ log[k].sp = log[i].sp

\* A second frame was submitted with the screen-quad buffer bound, after
\* the buffer was written at startup and the first frame was waited for.
C5_Witness ==
    /\ Len(submissions) = 2
    /\ ScreenQuadBuf \in submissions[2].refs
    /\ submissions[1].waited
    /\ ~submissions[2].waited
    /\ \E j \in 1..Len(log) : log[j].op = "write" /\ log[j].buf = ScreenQuadBuf

(***************************************************************************)
(* Claims about the vertices that are uploaded (SpecParse).                 *)
(***************************************************************************)
IsUnit(n) == n.den2 > 0 /\ VDot(n.num, n.num) = n.den2
IsZero(n) == n.den2 > 0 /\ n.num = Vec3Zero

\* C10: the normal of every emitted vertex, degenerate triangles included,
\* is unit-length or exactly zero, never NaN.
C10_NormalUnitOrZero ==
    /\ \A i \in 1..Len(out) : IsUnit(out[i].normal) \/ IsZero(out[i].normal)
    /\ \A i \in 1..Len(ScreenQuadVertices) :
          IsZero(ScreenQuadVertices[i].normal)


(***************************************************************************)
(* Claims about the passes State::render records (Spec).                   *)
(***************************************************************************)
\* The positions of the commands of kind `kind` in a command list.
OpsOfKind(cmds, kind) == {i \in 1..Len(cmds) : cmds[i].op = kind}

\* The position of the encoder.render(..) that opened the pass command i
\* was recorded in; 0 when command i is outside every pass.
PassOf(cmds, i) ==
    LET opened == {j \in OpsOfKind(cmds, "render") : j < i}
        closed == {j \in OpsOfKind(cmds, "end_pass") : j < i}
        last == IF opened = {} THEN 0
                ELSE CHOOSE j \in opened : \A k \in opened : k <= j
    IN  IF last # 0 /\ \A c \in closed : c < last THEN last ELSE 0

\* The draw calls recorded in the pass opened at position j.
DrawsOf(cmds, j) == {i \in OpsOfKind(cmds, "draw") : PassOf(cmds, i) = j}

\* The buffer bound by the last bind_vertex before command i in its pass.
BoundVertexBuf(cmds, i) ==
    LET binds == {j \in OpsOfKind(cmds, "bind_vertex") :
                     j < i /\ PassOf(cmds, j) = PassOf(cmds, i)}
    IN  IF binds = {} THEN "None"
        ELSE cmds[CHOOSE j \in binds : \A k \in binds : k <= j].buf

\* The passes of a command list, in the order they were recorded.
RECURSIVE PassSeq(_, _)
PassSeq(cmds, i) ==
    IF i > Len(cmds) THEN <<>>
    ELSE IF cmds[i].op = "render" THEN <<i>> \o PassSeq(cmds, i + 1)
    ELSE PassSeq(cmds, i + 1)

\* C11: every submitted frame holds two render passes in this order: a
\* geometry pass into the position, normal and depth attachments of the
\* G-buffer that draws every mesh of State.meshes, then a lighting pass into
\* the acquired image that draws the full-screen quad (6 vertices, not
\* indexed, 1 instance).
C11_TwoPassesGeometryThenLight ==
    \A s \in 1..Len(submissions) :
        LET cmds == submissions[s].cmds
            passes == PassSeq(cmds, 1)
        IN  /\ Len(passes) = 2
            /\ cmds[passes[1]].name = "geometry"
            /\ cmds[passes[1]].colors
                   = <<"g_buffer.pos_view", "g_buffer.normal_view">>
            /\ cmds[passes[1]].depth_stencil = "g_buffer.depth_view"
            /\ \A m \in 1..Len(meshes) :
                  \E d \in DrawsOf(cmds, passes[1]) :
                      /\ BoundVertexBuf(cmds, d) = meshes[m].vertex_buf
                      /\ cmds[d].count = meshes[m].num_vertices
            /\ cmds[passes[2]].name = "light"
            /\ cmds[passes[2]].colors = <<"frame">>
            /\ \E d \in DrawsOf(cmds, passes[2]) :
                  /\ DrawsOf(cmds, passes[2]) = {d}
                  /\ BoundVertexBuf(cmds, d) = ScreenQuadBuf
                  /\ cmds[d].first = 0 /\ cmds[d].count = 6
                  /\ cmds[d].instances = 1

\* The per-draw uniform data of spec section 6 for a camera: the
\* view-projection matrix camera.vp(), camera.pos and the forward vector
\* camera.right_forward_up()[1], each named by what it is computed from.
GlobalsOf(cam) ==
    [mvp_transform |-> <<"vp", cam.pos, cam.yaw, cam.pitch>>,
     cam_pos |-> cam.pos,
     cam_dir |-> <<"forward", cam.yaw, cam.pitch>>]

\* C12: in every recorded pass each draw is preceded, in its pass, by a
\* pipeline bind, then a bind of the uniform data built from the camera of
\* the call, then a vertex-buffer bind; so two render calls made with
\* different cameras record different command lists.
C12_BindBeforeDraw ==
    /\ \A s \in 1..Len(submissions) :
          LET cmds == submissions[s].cmds
          IN  \A d \in OpsOfKind(cmds, "draw") :
                  \E w, b, v \in 1..Len(cmds) :
                      /\ w < b /\ b < v /\ v < d
                      /\ PassOf(cmds, w) = PassOf(cmds, d)
                      /\ cmds[w].op = "with"
                      /\ cmds[b].op = "bind"
                      /\ cmds[b].globals = GlobalsOf(submissions[s].cam)
                      /\ cmds[v].op = "bind_vertex"
    /\ \A s, t \in 1..Len(submissions) :
          submissions[s].cam # submissions[t].cam =>
              submissions[s].cmds # submissions[t].cmds

\* What the code does record before its draw: the pipeline bind and the
\* vertex-buffer bind, in this order, in the pass of the draw.
PipelineAndVertexBound ==
    \A s \in 1..Len(submissions) :
        LET cmds == submissions[s].cmds
        IN  \A d \in OpsOfKind(cmds, "draw") :
                \E w, v \in 1..Len(cmds) :
                    /\ w < v /\ v < d
                    /\ PassOf(cmds, w) = PassOf(cmds, d)
                    /\ PassOf(cmds, d) # 0
                    /\ cmds[w].op = "with"
                    /\ cmds[v].op = "bind_vertex"

(***************************************************************************)
(* State::handle_input on its own (SpecInput): one call, made with a       *)
(* camera the event loop reaches by redraws with KeyW held and with a set  *)
(* of held keys.                                                           *)
(***************************************************************************)
\* The camera after n RedrawRequested events with held_keys = {KeyW}.
WalkOn(cam) == ApplyKeys(cam, <<"KeyW">>, cam)

RECURSIVE Walked(_)
Walked(n) == IF n = 0 THEN DefaultCamera ELSE WalkOn(Walked(n - 1))

InitInput ==
    /\ pc = "done"
    /\ overflow_checks = FALSE
    /\ text = <<>>
    /\ open_failed = FALSE
    /\ read_failed = FALSE
    /\ vertices = <<>>
    /\ normals = <<>>
    /\ indices = <<>>
    /\ last_appended = <<>>
    /\ out = <<>>
    /\ fault = "none"
    /\ rpc = "handle_input"
    /\ ip = 0
    /\ buffers = [b \in BufNames |-> NoBuffer]
    /\ meshes = <<>>
    /\ held_keys \in {K \in SUBSET InputKeys : Cardinality(K) <= MaxHeld}
    /\ last_key_state =
           [k \in InputKeys |-> IF k \in held_keys THEN "Pressed" ELSE "none"]
    /\ camera \in {Walked(n) : n \in 0..MaxWalk}
    /\ prev_sync_point = 0
    /\ frame = [state |-> "Idle", sp |-> 0]
    /\ encoder = <<>>
    /\ submissions = <<>>
    /\ log = <<>>

NextInput == HandleInput

SpecInput == InitInput /\ [][NextInput]_vars

\* [k]: 1 when key k is held, else 0.
Held(K, k) == IF k \in K THEN 1 ELSE 0

\* The camera the closed form of the claim gives for a call made with
\* camera cam and held keys K.
ClosedForm(cam, K) ==
    LET pf == PosAdd(cam.pos, cam.yaw, cam.pitch, "f",
                     Held(K, "KeyW") - Held(K, "KeyS"))
        pr == PosAdd(pf, cam.yaw, cam.pitch, "r",
                     Held(K, "KeyD") - Held(K, "KeyA"))
        pu == PosAdd(pr, cam.yaw, cam.pitch, "u",
                     Held(K, "KeyE") - Held(K, "KeyQ"))
    IN  [pos |-> pu,
         pitch |-> FAdd(cam.pitch,
                        (Held(K, "KeyI") - Held(K, "KeyK")) * angle_speed),
         yaw |-> FAdd(cam.yaw,
                      (Held(K, "KeyJ") - Held(K, "KeyL")) * angle_speed)]

\* C13: one call of handle_input with held keys K changes the camera by the
\* sum of the contributions of the keys of K, whatever the order the set is
\* iterated in: position += speed * ([W]-[S]) * forward
\* + speed * ([D]-[A]) * right + speed * ([E]-[Q]) * up,
\* pitch += angle_speed * ([I]-[K]), yaw += angle_speed * ([J]-[L]), with
\* the basis of the camera at the start of the call; opposite keys cancel
\* and pitch is not clamped.
C13_HandleInputAdditive ==
    [][(rpc = "handle_input" /\ rpc' = "render")
          => camera' = ClosedForm(camera, held_keys)]_vars

\* No two opposite keys are held.
NoOppositeKeys(K) ==
    \A pair \in {{"KeyW", "KeyS"}, {"KeyA", "KeyD"}, {"KeyQ", "KeyE"},
                 {"KeyI", "KeyK"}, {"KeyJ", "KeyL"}} : ~(pair \subseteq K)

\* The closed form does hold of every call made without opposite keys held.
ClosedFormWithoutOpposites ==
    [][(rpc = "handle_input" /\ rpc' = "render" /\ NoOppositeKeys(held_keys))
          => camera' = ClosedForm(camera, held_keys)]_vars

(***************************************************************************)
(* The uploads (SpecUpload): main as in Spec, and upload_mesh, which no    *)
(* code calls, run on its own on a CpuMesh.                                *)
(***************************************************************************)
\* The CpuMeshes upload_mesh is run on: empty; one triangle; a triangle and
\* its reverse over three and over four positions; then meshes upload_mesh
\* panics on: a position without a normal, a partial chunk, an index out of
\* range, positions without any index.
UploadPool ==
    LET p == <<(<<0, 0, 0>>), (<<1, 0, 0>>), (<<0, 2, 0>>), (<<2, 0, 0>>)>>
    IN  {[vertices |-> <<>>, indices |-> <<>>],
         [vertices |-> SubSeq(p, 1, 3), indices |-> <<0, 1, 2>>],
         [vertices |-> SubSeq(p, 1, 3), indices |-> <<0, 1, 2, 2, 1, 0>>],
         [vertices |-> p, indices |-> <<0, 1, 2, 2, 3, 0>>],
         [vertices |-> SubSeq(p, 1, 1), indices |-> <<0, 0, 0>>],
         [vertices |-> p, indices |-> <<0, 1, 2>>],
         [vertices |-> SubSeq(p, 1, 3), indices |-> <<0, 1>>],
         [vertices |-> SubSeq(p, 1, 3), indices |-> <<0, 1, 3>>],
         [vertices |-> SubSeq(p, 1, 3), indices |-> <<>>]}

InitUploadMesh ==
    /\ pc = "done"
    /\ overflow_checks \in BOOLEAN
    /\ text = <<>>
    /\ open_failed = FALSE
    /\ read_failed = FALSE
    /\ \E m \in UploadPool : vertices = m.vertices /\ indices = m.indices
    /\ normals = <<>>
    /\ last_appended = <<>>
    /\ out = <<>>
    /\ fault = "none"
    /\ rpc = "upload_mesh"
    /\ ip = 1
    /\ buffers = [b \in BufNames |-> NoBuffer]
    /\ meshes = <<>>
    /\ held_keys = {}
    /\ last_key_state = [k \in InputKeys |-> "none"]
    /\ camera = DefaultCamera
    /\ prev_sync_point = 0
    /\ frame = [state |-> "Idle", sp |-> 0]
    /\ encoder = <<>>
    /\ submissions = <<>>
    /\ log = <<>>

InitUpload == Init \/ InitUploadMesh

NextUpload ==
    \/ Next
    \/ UploadMeshNormals
    \/ UploadMeshReturn

SpecUpload == InitUpload /\ [][NextUpload]_vars

\* A Mesh, or the State for the quad, records an element count for buf.
HasRecord(buf) ==
    \/ buf = ScreenQuadBuf
    \/ \E m \in 1..Len(meshes) :
          meshes[m].vertex_buf = buf \/ meshes[m].index_buf = buf

\* The element count recorded for buf: Mesh.num_vertices, Mesh.num_indices,
\* 6 for the quad.
RecordedCount(buf) ==
    IF buf = ScreenQuadBuf THEN 6
    ELSE LET m == CHOOSE k \in 1..Len(meshes) :
                      meshes[k].vertex_buf = buf \/ meshes[k].index_buf = buf
         IN  IF meshes[m].vertex_buf = buf THEN meshes[m].num_vertices
             ELSE meshes[m].num_indices

\* Before position `before` of the log, buf was created, then written, then
\* synced, and not written again.
ReadyBefore(buf, before) ==
    \E c, w, y \in 1..(before - 1) :
        /\ c < w /\ w < y
        /\ log[c].op = "create_buffer" /\ log[c].buf = buf
        /\ log[w].op = "write" /\ log[w].buf = buf
        /\ log[y].op = "sync_buffer" /\ log[y].buf = buf
        /\ \A j \in (y + 1)..(before - 1) :
              ~(log[j].op = "write" /\ log[j].buf = buf)

\* The buffers a render call made now could draw from.
HeldBuffers ==
    {meshes[m].vertex_buf : m \in 1..Len(meshes)}
        \cup ({meshes[m].index_buf : m \in 1..Len(meshes)} \ {"None"})
        \cup (IF rpc = "returned" THEN {} ELSE {ScreenQuadBuf})

\* C14: for every buffer of upload_vertices, of upload_mesh and for the
\* screen-quad buffer, the declared size is the recorded element count
\* (num_vertices, num_indices, 6) times the stride; the copy writes exactly
\* that many elements and never more bytes than the size; and create, write,
\* sync_buffer are done in this order before a render call can be made, and
\* before every submission that references the buffer.
C14_BufferSizeAndUploadOrder ==
    /\ \A b \in BufNames :
          /\ buffers[b].written <= buffers[b].size
          /\ (buffers[b].created /\ HasRecord(b)) =>
                 buffers[b].size = RecordedCount(b) * Stride(b)
          /\ (HasRecord(b) /\ \E i \in 1..Len(log) :
                                  log[i].op = "write" /\ log[i].buf = b) =>
                 buffers[b].written = RecordedCount(b) * Stride(b)
    /\ rpc \in {"loop", "handle_input", "render", "exited", "returned"} =>
          \A b \in HeldBuffers :
              buffers[b].synced /\ ReadyBefore(b, Len(log) + 1)
    /\ \A i \in 1..Len(log) :
          log[i].op = "submit" =>
              \A b \in log[i].refs \cup HeldBuffers : ReadyBefore(b, i)

\* A frame that draws from the screen-quad buffer was submitted, with a
\* three-vertex mesh uploaded by upload_vertices.
C14_Witness ==
    /\ Len(submissions) >= 1
    /\ ScreenQuadBuf \in submissions[1].refs
    /\ buffers[ScreenQuadBuf].size = 6 * VertexSize
    /\ Len(meshes) = 1
    /\ meshes[1].num_vertices = 3
    /\ buffers[VertexBuf].written = 3 * VertexSize

\* upload_mesh has returned a Mesh of four vertices and six indices.
UploadMeshReturned ==
    /\ rpc = "returned"
    /\ meshes[1].num_vertices = 4
    /\ meshes[1].num_indices = 6
    /\ buffers[IndexBuf].written = 6 * U32Size

(***************************************************************************)
(* Lines that are no `v` or `f` directive (SpecParse).                     *)
(***************************************************************************)
\* A line with an unrecognized prefix or without a space separator.
UnrecognizedLine(line) == Arm(line) \in {"_", "none"}

\* The outcome of parse_obj_file on the lines read is the outcome it has on
\* the same lines without line i.
SameWithoutLine(i) ==
    LET m == ParseLines(EmptyMesh, RemoveAt(text, i), overflow_checks)
    IN  /\ m.fault = fault
        /\ fault = "none" => (m.vertices = vertices /\ m.indices = indices)

\* parse_obj_file is in its loop, has returned, or has panicked.
ParseOutcome ==
    /\ pc \in {"lines", "flatten", "done", "panicked"}
    /\ fault \in {"none", PanicVec3Index, PanicSubOverflow}
    /\ out = <<>>

\* C15: removing from the text a line that has an unrecognized prefix, that
\* has no space separator, or that is a `vn` line leaves the outcome of
\* parse_obj_file the same: same positions, same indices.
C15_IgnoredLinesNoEffect ==
    ParseOutcome =>
        \A i \in 1..Len(text) :
            (UnrecognizedLine(text[i]) \/ Arm(text[i]) = "vn")
                => SameWithoutLine(i)

\* Lines with an unrecognized prefix or without a space separator do leave
\* the outcome the same.
UnrecognizedLinesNoEffect ==
    ParseOutcome =>
        \A i \in 1..Len(text) : UnrecognizedLine(text[i]) => SameWithoutLine(i)

(***************************************************************************)
(* The order of the operations of a render call (Spec).                    *)
(***************************************************************************)
\* An operation of State::render, as against one of the uploads.
IsFrameOp(e) ==
    e.op \in {"acquire_frame", "start", "init_texture", "render", "with",
              "bind", "bind_vertex", "draw", "end_pass", "present", "submit",
              "wait_for"}

\* The operations of the render calls so far, in program order.
FrameLog == SelectSeq(log, IsFrameOp)

\* Which operation may directly follow which: acquire, start, init_texture,
\* passes, present, submit, wait, and then the next call's acquire.
Follows ==
    {<<"acquire_frame", "start">>, <<"start", "init_texture">>,
     <<"init_texture", "render">>, <<"render", "with">>,
     <<"render", "end_pass">>, <<"with", "bind">>, <<"with", "bind_vertex">>,
     <<"bind", "bind_vertex">>, <<"bind_vertex", "draw">>,
     <<"draw", "bind_vertex">>, <<"draw", "end_pass">>,
     <<"end_pass", "render">>, <<"end_pass", "present">>,
     <<"present", "submit">>, <<"submit", "wait_for">>,
     <<"wait_for", "acquire_frame">>}

\* The frame state an operation leaves the call in.
FrameStateAfter(op) ==
    CASE op = "acquire_frame" -> "Acquired"
      [] op = "submit" -> "Submitted"
      [] op = "wait_for" -> "Waited"
      [] OTHER -> "Encoding"

\* C16: every render call goes Idle, Acquired, Encoding, Submitted, Waited,
\* Idle with nothing skipped or repeated: acquire_frame, then start and
\* init_texture on the acquired image, then the passes, then present, then
\* submit, then wait_for on the SyncPoint submit returned; encoding never
\* starts before a frame was acquired and present always precedes submit.
C16_FrameStateOrder ==
    LET fl == FrameLog
        n == Len(fl)
    IN  /\ n > 0 => fl[1].op = "acquire_frame"
        /\ \A i \in 1..(n - 1) : <<fl[i].op, fl[i + 1].op>> \in Follows
        /\ \A i \in 1..n :
              /\ fl[i].op = "init_texture" => fl[i].target = "frame"
              /\ fl[i].op = "wait_for" =>
                     (fl[i - 1].op = "submit" /\ fl[i].sp = fl[i - 1].sp)
        /\ frame.state = IF rpc # "render" \/ ip = 1 THEN "Idle"
                         ELSE FrameStateAfter(fl[n].op)
        /\ (rpc # "render" /\ n > 0) => fl[n].op = "wait_for"

\* The second render call has waited for its submission and is about to
\* return.
C16_Witness ==
    /\ rpc = "render"
    /\ frame.state = "Waited"
    /\ frame.sp = 2
    /\ Len(FrameLog) = 2 * Len(RenderOps)

(***************************************************************************)
(* The synchronization discipline (Spec).                                  *)
(***************************************************************************)
\* The submissions no wait_for has returned for.
Unwaited == {s \in 1..Len(submissions) : ~submissions[s].waited}

\* The SyncPoint of the last submission logged before position i.
LastSubmitted(i) ==
    LET subs == {j \in 1..(i - 1) : log[j].op = "submit"}
    IN  IF subs = {} THEN 0
        ELSE log[CHOOSE j \in subs : \A k \in subs : k <= j].sp

\* C17: only discipline (a) is used: every render call waits, with the
\* unbounded timeout !0, on the SyncPoint of its own submission before it
\* returns; so no submission is un-waited when a render call starts or
\* between calls, at most one is ever in flight, and prev_sync_point is
\* None (0) in every reachable state.
C17_WaitOwnSubmission ==
    /\ prev_sync_point = 0
    /\ \A i \in 1..Len(log) :
          log[i].op = "wait_for" =>
              /\ log[i].timeout = "!0"
              /\ log[i].sp = LastSubmitted(i)
              /\ log[i - 1].op = "submit"
    /\ Cardinality(Unwaited) <= 1
    /\ \A s \in 1..Len(submissions) :
          submissions[s].waited => submissions[s].done
    /\ (rpc \in {"loop", "handle_input", "exited"}
            \/ (rpc = "render" /\ ip = 1)) => Unwaited = {}

\* A second render call starts after the first one waited for its own
\* submission.
C17_Witness ==
    /\ rpc = "render"
    /\ ip = 1
    /\ Len(submissions) = 1
    /\ submissions[1].waited
    /\ \E i \in 1..Len(log) : log[i].op = "wait_for" /\ log[i].sp = 1

(***************************************************************************)
(* The event loop (Spec).                                                  *)
(***************************************************************************)
\* What the RedrawRequested handler does, as the log shows it.
IsHandlerOp(e) ==
    e.op \in {"RedrawRequested", "handle_input", "acquire_frame", "submit",
              "render returns"}

HandlerLog == SelectSeq(log, IsHandlerOp)

\* One handle_input, then one render (from its acquire_frame over its
\* submit to its return), per RedrawRequested.
HandlerFollows ==
    {<<"RedrawRequested", "handle_input">>, <<"handle_input", "acquire_frame">>,
     <<"acquire_frame", "submit">>, <<"submit", "render returns">>,
     <<"render returns", "RedrawRequested">>}

\* C18: the held-key set is the set of keys whose most recent event was
\* Pressed; every RedrawRequested runs one handle_input and then one render,
\* never the reverse and never nested; and a key event neither changes the
\* camera nor submits a frame.
C18_EventLoop ==
    /\ [](held_keys = {k \in InputKeys : last_key_state[k] = "Pressed"})
    /\ [](LET hl == HandlerLog
          IN  /\ Len(hl) > 0 => hl[1].op = "RedrawRequested"
              /\ \A i \in 1..(Len(hl) - 1) :
                    <<hl[i].op, hl[i + 1].op>> \in HandlerFollows
              /\ (rpc = "loop" /\ Len(hl) > 0) =>
                     hl[Len(hl)].op = "render returns")
    /\ [][(last_key_state' # last_key_state \/ held_keys' # held_keys) =>
              (camera' = camera /\ submissions' = submissions /\ log' = log
                  /\ rpc = "loop" /\ rpc' = "loop")]_vars

\* KeyW was pressed and released, KeyS is held, and a redraw has moved the
\* camera and submitted a frame.
C18_Witness ==
    /\ rpc = "loop"
    /\ last_key_state["KeyW"] = "Released"
    /\ last_key_state["KeyS"] = "Pressed"
    /\ held_keys = {"KeyS"}
    /\ Len(submissions) = 1
    /\ camera.pos # {}

=============================================================================
